---- MODULE Spec2Model ----
(***************************************************************************)
(* Model of src/main.cpp: the multithreaded Monte Carlo estimator of Pi.   *)
(*                                                                         *)
(* main() launches supported_threads workers running pi_count(n), waits    *)
(* for getchar(), then for each worker in turn sets retire[i] and joins    *)
(* it, folds the per-thread counters into slot 0, prints the estimate and  *)
(* drains the deviation list.  Worker 0 also calls analysis() every        *)
(* analysis_samples_rate iterations.                                       *)
(*                                                                         *)
(* Every statement that touches memory another thread can see is one step. *)
(* Fixed-width integers are kept modulo a scaled-down width.  The arrays   *)
(* come from new[] with indeterminate contents: a cell holds Undef until   *)
(* it is first written and a read of it yields any value.  retire[] is a   *)
(* plain bool read in a loop without synchronisation: the build either     *)
(* loads it on every iteration or keeps it in a register (hoist).          *)
(***************************************************************************)
EXTENDS Integers, Sequences, FiniteSets, TLC

\* ------------------------------------------------------------- bounds ---
\* Samples the workers draw, all together, before their retire flags are set.
MaxSamples == 4
\* A read of a cell never written yields a value in 0 .. GarbageMax.
GarbageMax == 1
\* Coordinates are the midpoints (2k+1) / (2 CoordScale) of CoordScale cells.
CoordScale == 2

\* -------------------------------------------------- program constants ---
\* #define analysis_samples_rate 1000000, scaled down.
analysis_samples_rate == 2
\* unsigned int / int: 32 bits in the program, scaled down to UIntBits.
UIntBits == 2
\* unsigned long long (the loop counter i): 64 bits, scaled down.
ULLongBits == 3
\* const double test_pi = 3.14159265358979324, in units of 10^-6.
test_pi == 3141593
\* supported_threads = 2 when hardware_concurrency() returns 0.
DefaultThreads == 2

\* What std::thread::hardware_concurrency() returns: 0 (unknown), 1 or 2, so
\* that runs with one worker and with two workers are covered.
HardwareConcurrency == {0, 1, 2}
\* Lines 108-110: the thread count main() settles on.
SupportedThreads(h) == IF h = 0 THEN DefaultThreads ELSE h

UIntModulus == 2 ^ UIntBits
ULLongModulus == 2 ^ ULLongBits
UInt == 0 .. (UIntModulus - 1)
\* The content of a cell of new unsigned int[n] / new bool[n] never written.
Undef == -1

VARIABLES
    supported_threads,  \* unsigned supported_threads
    hoist,              \* the build keeps retire[n] in a register inside the loop
    mpc,                \* main(): position
    mi,                 \* main(): the loop variable i
    retire,             \* bool * retire
    count,              \* unsigned int * count
    total,              \* unsigned int * total
    pc,                 \* pi_count(n): position of thread n
    iter,               \* pi_count(n): unsigned long long i (lead thread; see NextIter)
    reg,                \* pi_count(n): the value of retire[n] last loaded
    an_i,               \* analysis(): the loop variable i
    count_in,           \* analysis(): int count_in (bits)
    count_total,        \* analysis(): int count_total (bits)
    deviation,          \* std::list<deviation> deviation
    out,                \* stdout, one entry per printed line
    pushed,             \* history: every record analysis() has appended
    drawn,              \* history: samples begun by threads not yet told to stop
    joined_count,       \* history: count[] when the last join returned
    joined_total,       \* history: total[] when the last join returned
    seen,               \* history: the reads of the running call of analysis()
    an_start            \* history: total[] when the running call of analysis() began

vars == <<supported_threads, hoist, mpc, mi, retire, count, total, pc, iter,
          reg, an_i, count_in, count_total, deviation, out, pushed,
          drawn, joined_count, joined_total, seen, an_start>>

mainVars == <<mpc, mi>>
anVars == <<an_i, count_in, count_total>>
anHist == <<seen, an_start>>
histVars == <<joined_count, joined_total, anHist>>
allHist == <<drawn, joined_count, joined_total, anHist>>
runHist == <<drawn, joined_count, joined_total>>

\* ------------------------------------------------------------ helpers ---
Threads == DOMAIN pc

\* Unsigned arithmetic of the counters: ++x and x += y wrap.
UAdd(a, b) == (a + b) % UIntModulus

\* The value of an int whose bits are u (two's complement).
ToSigned(u) == IF u >= UIntModulus \div 2 THEN u - UIntModulus ELSE u

\* What a read of a cell can yield: its value, or anything if never written.
ReadCell(v) == IF v = Undef THEN 0 .. GarbageMax ELSE {v}

\* a / b rounded to the nearest integer, b # 0.
RoundDiv(a, b) ==
    LET n == IF b < 0 THEN -a ELSE a
        d == IF b < 0 THEN -b ELSE b
    IN  (2 * n + d) \div (2 * d)

\* (long double)a / b * 4 in units of 10^-6; x87 division by zero gives
\* NaN for 0/0 and an infinity otherwise.
Estimate(a, b) ==
    IF b = 0
    THEN [kind |-> IF a = 0 THEN "nan" ELSE IF a > 0 THEN "inf" ELSE "-inf",
          micro |-> 0]
    ELSE [kind |-> "num", micro |-> RoundDiv(4000000 * a, b)]

\* test_pi - calculated_pi
Deviate(e) ==
    CASE e.kind = "num" -> [kind |-> "num", micro |-> test_pi - e.micro]
      [] e.kind = "inf" -> [kind |-> "-inf", micro |-> 0]
      [] e.kind = "-inf" -> [kind |-> "inf", micro |-> 0]
      [] OTHER -> e

\* struct deviation { long double accuracy; unsigned int points; }
DeviationRecord(acc, pts) == [accuracy |-> acc, points |-> pts]

\* One printed line.
Line(kind, num, val) == [line |-> kind, num |-> num, val |-> val]
NoVal == [kind |-> "none", micro |-> 0]

\* sqrtl(x0 * x0 + y0 * y0) <= 1 on the grid.
IsInside(x, y) == x * x + y * y <= (2 * CoordScale) * (2 * CoordScale)

Coord == {2 * k + 1 : k \in 0 .. (CoordScale - 1)}

\* ---------------------------------------------------------------- Init ---
\* The state when main() is entered: the globals are constructed, nothing is
\* allocated, hardware_concurrency() has returned some value (0: unknown).
EmptyArray == [k \in {} |-> 0]

Init ==
    /\ supported_threads \in HardwareConcurrency
    /\ hoist \in BOOLEAN
    /\ mpc = "start"
    /\ mi = 0
    /\ retire = EmptyArray
    /\ count = EmptyArray
    /\ total = EmptyArray
    /\ pc = EmptyArray
    /\ iter = EmptyArray
    /\ reg = EmptyArray
    /\ an_i = 0
    /\ count_in = 0
    /\ count_total = 0
    /\ deviation = <<>>
    /\ out = <<>>
    /\ pushed = <<>>
    /\ drawn = 0
    /\ joined_count = EmptyArray
    /\ joined_total = EmptyArray
    /\ seen = <<>>
    /\ an_start = <<>>

\* -------------------------------------------------------------- main() ---
\* Lines 107-122: default the thread count, allocate the arrays (contents
\* indeterminate) and the thread handles, print the startup line.
Start ==
    /\ mpc = "start"
    /\ LET n == SupportedThreads(supported_threads)
       IN  /\ supported_threads' = n
           /\ count' = [k \in 0 .. (n - 1) |-> Undef]
           /\ total' = [k \in 0 .. (n - 1) |-> Undef]
           /\ retire' = [k \in 0 .. (n - 1) |-> Undef]
           /\ pc' = [k \in 0 .. (n - 1) |-> "unborn"]
           /\ iter' = [k \in 0 .. (n - 1) |-> 0]
           /\ reg' = [k \in 0 .. (n - 1) |-> 0]
           /\ out' = Append(out, Line("startup", n, NoVal))
    /\ mpc' = "launch"
    /\ mi' = 0
    /\ UNCHANGED <<hoist, anVars, deviation, pushed, allHist>>

\* Lines 123-127: retire[i] = false; threads[i] = std::thread(pi_count, i).
Launch ==
    /\ mpc = "launch"
    /\ mi < supported_threads
    /\ retire' = [retire EXCEPT ![mi] = 0]
    /\ pc' = [pc EXCEPT ![mi] = "init_count"]
    /\ mi' = mi + 1
    /\ UNCHANGED <<supported_threads, hoist, mpc, count, total, iter, reg,
                   anVars, deviation, out, pushed, allHist>>

\* Lines 130-131: the prompt is printed and getchar() returns (the external
\* stop trigger).
Getchar ==
    /\ mpc = "launch"
    /\ mi >= supported_threads
    /\ out' = Append(out, Line("prompt", 0, NoVal))
    /\ mpc' = "interrupt"
    /\ mi' = 0
    /\ UNCHANGED <<supported_threads, hoist, retire, count, total, pc, iter, reg,
                   anVars, deviation, pushed, allHist>>

\* The interrupt step raising the flag of slot 0 whatever the loop index is.
InterruptFirstSlot ==
    /\ mpc = "interrupt"
    /\ mi < supported_threads
    /\ out' = Append(out, Line("interrupt", mi, NoVal))
    /\ retire' = [retire EXCEPT ![0] = 1]
    /\ mpc' = "join"
    /\ UNCHANGED <<supported_threads, hoist, mi, count, total, pc, iter, reg,
                   anVars, deviation, pushed, allHist>>

\* Lines 134-137: print the interrupt line of thread i and set retire[i].
Interrupt ==
    /\ mpc = "interrupt"
    /\ mi < supported_threads
    /\ out' = Append(out, Line("interrupt", mi, NoVal))
    /\ retire' = [retire EXCEPT ![mi] = 1]
    /\ mpc' = "join"
    /\ UNCHANGED <<supported_threads, hoist, mi, count, total, pc, iter,
                   reg, anVars, deviation, pushed, allHist>>

\* Mutant of JoinReturns: the join does not wait for the thread.
JoinDoesNotWait(n) == TRUE

\* std::thread::join() returns once the thread's function has returned.
JoinReturns(n) == pc[n] = "done"

\* Line 138: threads[i].join(); the last join ends the stopping loop.
Join ==
    /\ mpc = "join"
    /\ JoinReturns(mi)
    /\ IF mi + 1 < supported_threads
       THEN /\ mpc' = "interrupt"
            /\ mi' = mi + 1
            /\ UNCHANGED allHist
       ELSE /\ mpc' = "collect"
            /\ mi' = 1
            /\ joined_count' = count
            /\ joined_total' = total
            /\ UNCHANGED <<drawn, anHist>>
    /\ UNCHANGED <<supported_threads, hoist, retire, count, total, pc, iter,
                   reg, anVars, deviation, out, pushed>>

\* The collection loop without its second statement: only count[0] is summed.
CollectCountOnly ==
    /\ mpc = "collect"
    /\ mi < supported_threads
    /\ count' = [count EXCEPT ![0] = UAdd(count[0], count[mi])]
    /\ mi' = mi + 1
    /\ UNCHANGED <<supported_threads, hoist, mpc, retire, total, pc, iter, reg,
                   anVars, deviation, out, pushed, allHist>>

\* The collection loop with its two indices exchanged: count[i] += count[0];
\* total[i] += count[0].
CollectIntoOwnSlot ==
    /\ mpc = "collect"
    /\ mi < supported_threads
    /\ count' = [count EXCEPT ![mi] = UAdd(count[mi], count[0])]
    /\ total' = [total EXCEPT ![mi] = UAdd(total[mi], count[0])]
    /\ mi' = mi + 1
    /\ UNCHANGED <<supported_threads, hoist, mpc, retire, pc, iter, reg,
                   anVars, deviation, out, pushed, allHist>>

\* Lines 142-146: count[0] += count[i]; total[0] += count[i].
Collect ==
    /\ mpc = "collect"
    /\ mi < supported_threads
    /\ count' = [count EXCEPT ![0] = UAdd(count[0], count[mi])]
    /\ total' = [total EXCEPT ![0] = UAdd(total[0], count[mi])]
    /\ mi' = mi + 1
    /\ UNCHANGED <<supported_threads, hoist, mpc, retire, pc, iter, reg,
                   anVars, deviation, out, pushed, allHist>>

\* Lines 149-153: the estimate line ("%Lf ... %d": total[0] is printed as a
\* signed int) and the CSV header.
PrintFinal ==
    /\ mpc = "collect"
    /\ mi >= supported_threads
    /\ out' = out \o <<Line("final", ToSigned(total[0]),
                            Estimate(count[0], total[0])),
                       Line("header", 0, NoVal)>>
    /\ mpc' = "drain"
    /\ UNCHANGED <<supported_threads, hoist, mi, retire, count, total, pc,
                   iter, reg, anVars, deviation, pushed, allHist>>

\* Mutant of Front: the record taken is the newest one (back()).
Back(list) == list[Len(list)]

\* deviation.front() and what deviation.pop_front() leaves.
Front(list) == Head(list)
PopFront(list) == Tail(list)

\* printf("%d,%Lf\n", diff.points, diff.accuracy): points as a signed int.
RecordLine(diff) == Line("record", ToSigned(diff.points), diff.accuracy)

\* Lines 154-159: one turn of the draining loop.
Drain ==
    /\ mpc = "drain"
    /\ deviation # <<>>
    /\ out' = Append(out, RecordLine(Front(deviation)))
    /\ deviation' = PopFront(deviation)
    /\ UNCHANGED <<supported_threads, hoist, mainVars, retire, count, total,
                   pc, iter, reg, anVars, pushed, allHist>>

\* Lines 154, 162-164: the list is empty; delete [] threads; return 0.
Exit ==
    /\ mpc = "drain"
    /\ deviation = <<>>
    /\ mpc' = "done"
    /\ UNCHANGED <<supported_threads, hoist, mi, retire, count, total, pc,
                   iter, reg, anVars, deviation, out, pushed, allHist>>

Main == \/ Start \/ Launch \/ Getchar \/ Interrupt \/ Join
        \/ Collect \/ PrintFinal \/ Drain \/ Exit

\* ----------------------------------------------------------- pi_count ---
\* Line 170: count[n] = 0.
InitCount(n) ==
    /\ pc[n] = "init_count"
    /\ count' = [count EXCEPT ![n] = 0]
    /\ pc' = [pc EXCEPT ![n] = "init_total"]
    /\ UNCHANGED <<supported_threads, hoist, mainVars, retire, total, iter,
                   reg, anVars, deviation, out, pushed, allHist>>

\* What a load of retire[n] leaves in the thread's register, in the build
\* that keeps the flag there (the other build has no such register).
Reload(n) == IF hoist THEN [reg EXCEPT ![n] = retire[n]] ELSE reg

\* Line 171: total[n] = 0, and the loop is entered (first load of retire[n]).
InitTotal(n) ==
    /\ pc[n] = "init_total"
    /\ total' = [total EXCEPT ![n] = 0]
    /\ reg' = Reload(n)
    /\ pc' = [pc EXCEPT ![n] = "check"]
    /\ UNCHANGED <<supported_threads, hoist, mainVars, retire, count, iter,
                   anVars, deviation, out, pushed, allHist>>

\* The test of the flag inverted: the value if(!retire[n]) tests.
ObservedInverted(n) == 1 - (IF hoist THEN reg[n] ELSE retire[n])

\* The value if(retire[n]) tests.  retire[n] is a plain bool that main()
\* writes while the thread reads it: the build reads memory on every
\* iteration or, the load having been moved out of the loop, tests the
\* register, which is loaded on entry to the loop and after a call the
\* compiler cannot see through (analysis() calls operator new).
Observed(n) == IF hoist THEN reg[n] ELSE retire[n]

\* Lines 177-178, 197: if(retire[n]) break; the thread returns and its
\* locals are gone.
LoopExit(n) ==
    /\ pc[n] = "check"
    /\ Observed(n) # 0
    /\ pc' = [pc EXCEPT ![n] = "done"]
    /\ iter' = [iter EXCEPT ![n] = 0]
    /\ reg' = [reg EXCEPT ![n] = 0]
    /\ UNCHANGED <<supported_threads, hoist, mainVars, retire, count, total,
                   anVars, deviation, out, pushed, allHist>>

\* Lines 177, 181: the flag reads false, x(xgen) is entered.  MaxSamples
\* bounds the samples begun before the orchestrator has set the thread's flag.
LoopContinue(n) ==
    /\ pc[n] = "check"
    /\ Observed(n) = 0
    /\ IF retire[n] = 0
       THEN /\ drawn < MaxSamples
            /\ drawn' = drawn + 1
       ELSE UNCHANGED drawn
    /\ pc' = [pc EXCEPT ![n] = "draw_x"]
    /\ UNCHANGED <<supported_threads, hoist, mainVars, retire, count, total, iter,
                   reg, anVars, deviation, out, pushed, histVars>>

\* Line 181: x(xgen) returns and y(ygen) is entered.
DrawX(n) ==
    /\ pc[n] = "draw_x"
    /\ pc' = [pc EXCEPT ![n] = "draw_y"]
    /\ UNCHANGED <<supported_threads, hoist, mainVars, retire, count, total, iter,
                   reg, anVars, deviation, out, pushed, allHist>>

\* Lines 181, 188: y(ygen) returns and the point is classified.  x0 and y0
\* are locals read only here, so the values drawn are chosen here.
DrawY(n) ==
    /\ pc[n] = "draw_y"
    /\ \E x \in Coord, y \in Coord :
          pc' = [pc EXCEPT ![n] = IF IsInside(x, y) THEN "inc_count"
                                  ELSE "inc_total"]
    /\ UNCHANGED <<supported_threads, hoist, mainVars, retire, count, total, iter,
                   reg, anVars, deviation, out, pushed, allHist>>

\* Line 189: ++count[n].
IncCount(n) ==
    /\ pc[n] = "inc_count"
    /\ count' = [count EXCEPT ![n] = UAdd(count[n], 1)]
    /\ pc' = [pc EXCEPT ![n] = "inc_total"]
    /\ UNCHANGED <<supported_threads, hoist, mainVars, retire, total, iter,
                   reg, anVars, deviation, out, pushed, allHist>>

\* The checkpoint test counting from one: (i + 1) % analysis_samples_rate.
CheckpointAfterInterval(n, i) == n = 0 /\ (i + 1) % analysis_samples_rate = 0

\* Line 194: n == 0 && i % analysis_samples_rate == 0.
IsCheckpoint(n, i) == n = 0 /\ i % analysis_samples_rate = 0

\* ++i of the for loop (unsigned long long).  Only thread 0 ever reads i
\* (n == 0 && i % ... short-circuits), so i is kept for thread 0 alone.
NextIter(n, i) == IF n = 0 THEN (i + 1) % ULLongModulus ELSE i

\* Lines 190, 194: ++total[n]; then analysis() is entered or the loop goes on.
IncTotal(n) ==
    /\ pc[n] = "inc_total"
    /\ total' = [total EXCEPT ![n] = UAdd(total[n], 1)]
    /\ IF IsCheckpoint(n, iter[n])
       THEN /\ pc' = [pc EXCEPT ![n] = "analysis"]
            /\ an_i' = 1
            /\ count_in' = 0
            /\ count_total' = 0
            /\ iter' = iter
            /\ seen' = <<>>
            /\ an_start' = total'
       ELSE /\ pc' = [pc EXCEPT ![n] = "check"]
            /\ iter' = [iter EXCEPT ![n] = NextIter(n, iter[n])]
            /\ UNCHANGED <<anVars, anHist>>
    /\ UNCHANGED <<supported_threads, hoist, mainVars, retire, count, reg,
                   deviation, out, pushed, runHist>>

\* ----------------------------------------------------------- analysis ---
\* One read of analysis(): the slot, the array and the value obtained.
ReadOf(i, arr, v) == [slot |-> i, field |-> arr, val |-> v]

\* Line 207: count_in += count[i], an unsynchronised read of another slot.
AnalysisCount(n) ==
    /\ pc[n] = "analysis"
    /\ an_i < supported_threads
    /\ \E v \in ReadCell(count[an_i]) :
          /\ count_in' = UAdd(count_in, v)
          /\ seen' = Append(seen, ReadOf(an_i, "count", v))
    /\ pc' = [pc EXCEPT ![n] = "analysis_total"]
    /\ UNCHANGED <<supported_threads, hoist, mainVars, retire, count, total,
                   iter, reg, an_i, count_total, deviation, out, pushed,
                   runHist, an_start>>

\* Line 208: count_total += total[i]; ++i.
AnalysisTotal(n) ==
    /\ pc[n] = "analysis_total"
    /\ \E v \in ReadCell(total[an_i]) :
          /\ count_total' = UAdd(count_total, v)
          /\ seen' = Append(seen, ReadOf(an_i, "total", v))
    /\ an_i' = an_i + 1
    /\ pc' = [pc EXCEPT ![n] = "analysis"]
    /\ UNCHANGED <<supported_threads, hoist, mainVars, retire, count, total,
                   iter, reg, count_in, deviation, out, pushed, runHist,
                   an_start>>

\* Lines 211-215: the record analysis() builds from its two int sums.
AnalysisRecord(cin, ctotal) ==
    DeviationRecord(Deviate(Estimate(ToSigned(cin), ToSigned(ctotal))), ctotal)

\* Lines 211-215: push_back of the record; analysis() returns (it called
\* operator new, so a cached retire[n] is loaded again) and the loop goes on.
AnalysisPush(n) ==
    /\ pc[n] = "analysis"
    /\ an_i >= supported_threads
    /\ deviation' = Append(deviation, AnalysisRecord(count_in, count_total))
    /\ pushed' = Append(pushed, AnalysisRecord(count_in, count_total))
    /\ reg' = Reload(n)
    /\ iter' = [iter EXCEPT ![n] = NextIter(n, iter[n])]
    /\ pc' = [pc EXCEPT ![n] = "check"]
    /\ an_i' = 0
    /\ count_in' = 0
    /\ count_total' = 0
    /\ seen' = <<>>
    /\ an_start' = <<>>
    /\ UNCHANGED <<supported_threads, hoist, mainVars, retire, count, total,
                   out, runHist>>

Worker(n) ==
    /\ n \in DOMAIN pc
    /\ \/ InitCount(n) \/ InitTotal(n) \/ LoopExit(n) \/ LoopContinue(n)
       \/ DrawX(n) \/ DrawY(n) \/ IncCount(n) \/ IncTotal(n)
       \/ AnalysisCount(n) \/ AnalysisTotal(n) \/ AnalysisPush(n)

\* ------------------------------------------------------ specification ---
\* The slots a run can have.
ThreadCounts == {SupportedThreads(h) : h \in HardwareConcurrency}
Slots == 0 .. ((CHOOSE m \in ThreadCounts : \A k \in ThreadCounts : k <= m) - 1)

Next == Main \/ \E n \in Slots : Worker(n)

Spec == Init /\ [][Next]_vars

\* main()'s steps once getchar() has returned: the scheduler runs it.
MainAfterStop == Interrupt \/ Join \/ Collect \/ PrintFinal \/ Drain \/ Exit

\* Fair scheduling of every thread; when getchar() returns is up to the user.
FairSpec ==
    /\ Spec
    /\ WF_vars(Start \/ Launch)
    /\ WF_vars(MainAfterStop)
    /\ \A n \in Slots : WF_vars(Worker(n))

\* ============================================================== claims ===
\* The sum of an array of counters as an unsigned int.
RECURSIVE USumTo(_, _)
USumTo(arr, k) == IF k < 0 THEN 0 ELSE UAdd(USumTo(arr, k - 1), arr[k])
USum(arr) == USumTo(arr, supported_threads - 1)

AllJoined == mpc \in {"collect", "drain", "done"}
Reported == mpc \in {"drain", "done"}

\* C1: once every worker is joined and the totals are folded, the in-circle
\* count and the sample count the final line is printed from are the sums,
\* over all slots, of the counters the workers left.
C1_FinalTotalsAreSums ==
    Reported => /\ count[0] = USum(joined_count)
                /\ total[0] = USum(joined_total)

\* C2: in every state every slot whose counters have been written has
\* count[n] <= total[n].
C2_CountAtMostTotal ==
    \A n \in Threads :
        (count[n] # Undef /\ total[n] # Undef) => count[n] <= total[n]

\* C3: once getchar() has returned, every worker eventually leaves its loop
\* and main() eventually returns (checked under fair scheduling, FairSpec).
StopTriggered == mpc \notin {"start", "launch"}
ShutDown == mpc = "done" /\ \A n \in Threads : pc[n] = "done"
C3_ShutdownCompletes == StopTriggered ~> ShutDown

\* C4: no record of the deviation list was computed from a division by
\* zero: every record has points > 0.
C4_NoZeroDivisionRecord ==
    \A k \in 1 .. Len(deviation) : deviation[k].points > 0

\* C5: the deviation list is ordered by non-decreasing points.
C5_PointsNonDecreasing ==
    \A j, k \in 1 .. Len(deviation) :
        j < k => deviation[j].points <= deviation[k].points

\* C6: while worker n is alive no step lowers count[n] or total[n].
Alive(n) == pc[n] \notin {"unborn", "done"}
C6_CountersNeverDecrease ==
    [][\A n \in Threads :
          Alive(n) => count'[n] >= count[n] /\ total'[n] >= total[n]]_vars

\* C7: no two workers are inside a draw on the same generator at once.
InXgen == {n \in Threads : pc[n] = "draw_x"}
InYgen == {n \in Threads : pc[n] = "draw_y"}
C7_GeneratorNotShared == Cardinality(InXgen) <= 1 /\ Cardinality(InYgen) <= 1

\* C8: draining emits every appended record exactly once, oldest first, and
\* leaves the list empty: at each turn the record lines printed so far,
\* followed by the lines of what is still in the list, are the lines of the
\* records in the order analysis() appended them.
IsRecordLine(l) == l.line = "record"
RecordLines == SelectSeq(out, IsRecordLine)
LinesOf(list) == [k \in 1 .. Len(list) |-> RecordLine(list[k])]
C8_DrainIsFifo ==
    Reported => /\ RecordLines \o LinesOf(deviation) = LinesOf(pushed)
                /\ (mpc = "done" => deviation = <<>>)

\* C8 witness: a drain of at least two different records has ended.
C8_Witness ==
    /\ mpc = "done"
    /\ Len(pushed) >= 2
    /\ pushed[1] # pushed[2]
    /\ Len(RecordLines) = Len(pushed)

\* C9: main() goes through Starting, Running, Stopping, Aggregating,
\* Reporting, Done in order, one phase at a time; the lines printed are the
\* startup line with the worker count, (the prompt,) one interrupt line per
\* worker in index order once getchar() has returned, the estimate line, the
\* header and the record lines; nothing of the report is printed before
\* every worker is joined.
PhaseRank ==
    CASE mpc = "start" -> 0
      [] mpc = "launch" -> IF mi < supported_threads THEN 0 ELSE 1
      [] mpc \in {"interrupt", "join"} -> 2
      [] mpc = "collect" -> 3
      [] mpc = "drain" -> 4
      [] OTHER -> 5
PhaseStep == PhaseRank' \in {PhaseRank, PhaseRank + 1}

ExpectedLine(k, l) ==
    CASE k = 1 -> l.line = "startup" /\ l.num = supported_threads
      [] k = 2 -> l.line = "prompt"
      [] k > 2 /\ k <= supported_threads + 2 ->
             l.line = "interrupt" /\ l.num = k - 3
      [] k = supported_threads + 3 -> l.line = "final"
      [] k = supported_threads + 4 -> l.line = "header"
      [] OTHER -> l.line = "record"
OutputOrdered ==
    /\ \A k \in 1 .. Len(out) : ExpectedLine(k, out[k])
    /\ ((Len(out) >= 2) <=> StopTriggered)
    /\ (PhaseRank >= 3 => Len(out) >= supported_threads + 2)
    /\ (Len(out) >= supported_threads + 3 =>
           AllJoined /\ \A n \in Threads : pc[n] = "done")
    /\ (mpc = "done" => Len(out) >= supported_threads + 4)
C9_PhasesAndOutputInOrder == [][PhaseStep /\ OutputOrdered']_vars

\* C9 witness: a two-worker run has ended with at least one record line.
C9_Witness ==
    /\ mpc = "done"
    /\ supported_threads = 2
    /\ Len(out) > supported_threads + 4

\* C10: analysis() reads count[i] and total[i] only of slots that have been
\* set to 0.
C10_AnalysisReadsInitialised ==
    [][/\ (0 \in Threads /\ pc[0] = "analysis" /\ pc'[0] = "analysis_total")
              => count[an_i] # Undef
       /\ (0 \in Threads /\ pc[0] = "analysis_total" /\ pc'[0] = "analysis")
              => total[an_i] # Undef]_vars

\* A step that changes one of the two counters of slot n.
WritesSlot(n) == count'[n] # count[n] \/ total'[n] # total[n]

\* C11 (as stated): every change to count[n] or total[n] is made by worker n
\* while it runs; nothing else writes slot n, and after worker n has exited
\* its counters never change again, slot 0 included.
C11_OnlyOwnWorkerWrites ==
    [][\A n \in Threads : WritesSlot(n) => Alive(n) /\ Worker(n)]_vars

\* C11 (amended): every change to count[n] or total[n] is made by worker n
\* while it runs, or, for slot 0 alone, by the collection loop of main() once
\* every worker has been joined; the slots n >= 1 never change after their
\* worker has exited.
C11_SlotWriters ==
    [][\A n \in Threads :
          WritesSlot(n) => \/ Alive(n) /\ Worker(n)
                           \/ n = 0 /\ AllJoined /\ Collect]_vars

C11_Witness ==
    /\ Reported
    /\ supported_threads = 2
    /\ joined_count[1] > 0
    /\ count[1] = joined_count[1] /\ total[1] = joined_total[1]
    /\ count[0] # joined_count[0]

\* join() of worker n has returned in main().
Joined(n) == AllJoined \/ (mpc \in {"interrupt", "join"} /\ mi > n)

\* C12: every append to the deviation list is made by worker 0 before its
\* join() has returned; main() reads and drains the list only after every
\* worker has been joined; no append is concurrent with the drain or later
\* than its start.
C12_DeviationDiscipline ==
    [][/\ pushed' # pushed =>
              /\ 0 \in Threads /\ AnalysisPush(0)
              /\ ~Joined(0) /\ ~Reported
              /\ deviation' = Append(deviation, pushed'[Len(pushed')])
       /\ deviation' # deviation /\ pushed' = pushed =>
              /\ Drain
              /\ \A n \in Threads : Joined(n) /\ pc[n] = "done"
       /\ Reported' => \A n \in Threads : Joined(n)' /\ pc'[n] = "done"]_vars

C12_Witness ==
    /\ mpc = "drain"
    /\ Len(pushed) >= 2
    /\ deviation # <<>>
    /\ Len(deviation) < Len(pushed)
    /\ \A n \in Threads : pc[n] = "done"

\* main() is blocked in (or about to return from) threads[mi].join().
InJoin == mpc = "join"

\* C13 (as stated): whenever main() is blocked in a join, the stop flag of
\* every slot is already true.
C13_AllFlagsSetBeforeJoin ==
    InJoin => \A n \in Threads : retire[n] = 1

\* C13 (amended): main() signals and joins the workers one at a time, so while
\* it is blocked in the join of worker mi the flags of the slots 0 .. mi are
\* true and the flags of the later slots are still false.
C13_FlagsSetUpToJoined ==
    InJoin => \A n \in Threads : retire[n] = (IF n <= mi THEN 1 ELSE 0)

C13_Witness ==
    /\ InJoin
    /\ mi = 0
    /\ supported_threads = 2
    /\ pc[0] # "done"
    /\ pc[1] = "draw_x"

\* The thread is inside analysis().
InAnalysis(n) == pc[n] \in {"analysis", "analysis_total"}

\* The number of multiples of the interval among 0 .. k-1.
CheckpointsIn(k) ==
    Cardinality({i \in 0 .. k - 1 : i % analysis_samples_rate = 0})

\* Worker 0 runs; iter[0] is the number of iterations it has completed.
CheckpointCount ==
    /\ \A n \in Threads : InAnalysis(n) => n = 0 /\ iter[0] % analysis_samples_rate = 0
    /\ 0 \in Threads /\ Alive(0) =>
           Len(pushed) = CheckpointsIn(iter[0])
    /\ 0 \notin Threads \/ (0 \in Threads /\ pc[0] = "unborn") => pushed = <<>>

\* C14: analysis() is called only by worker 0, on exactly the iterations whose
\* counter i is a multiple of analysis_samples_rate, right after that
\* iteration's counter updates, and appends one record per call; after k
\* completed iterations of worker 0 the number of records appended equals the
\* number of multiples of the interval in 0 .. k-1; no other worker appends.
C14_CheckpointTriggering ==
    [][/\ CheckpointCount'
       /\ \A n \in Threads :
             /\ ~InAnalysis(n) /\ InAnalysis(n)' =>
                    n = 0 /\ pc[0] = "inc_total" /\ total'[0] = UAdd(total[0], 1)
             /\ pc[n] = "inc_total" /\ pc'[n] = "check" =>
                    n # 0 \/ iter[0] % analysis_samples_rate # 0
       /\ pushed' # pushed =>
             /\ 0 \in Threads /\ pc[0] = "analysis" /\ pc'[0] = "check"
             /\ Len(pushed') = Len(pushed) + 1
             /\ iter'[0] = iter[0] + 1
       /\ 0 \in Threads /\ InAnalysis(0) /\ ~InAnalysis(0)' =>
             Len(pushed') = Len(pushed) + 1]_vars

C14_Witness ==
    /\ 0 \in Threads
    /\ pc[0] = "check"
    /\ iter[0] = 3
    /\ Len(pushed) = 2

\* The reads of one array among the reads of a call of analysis().
ReadsOf(reads, arr) == SelectSeq(reads, LAMBDA r : r.field = arr)

\* The slots read, in order, and the sum (a number) of the values read.
SlotsRead(reads) == [k \in 1 .. Len(reads) |-> reads[k].slot]
RECURSIVE ValuesRead(_)
ValuesRead(reads) ==
    IF reads = <<>> THEN 0 ELSE reads[1].val + ValuesRead(Tail(reads))

\* The slots 1 .. supported_threads - 1 in order.
OtherSlots == [k \in 1 .. supported_threads - 1 |-> k]

\* C15: for every call of analysis(), the points of the appended record equal
\* the sum of the total[i] values the call read over the slots
\* 1 <= i < supported_threads, and the in-circle sum the estimate is computed
\* from is the sum of the count[i] values read over the same slots; slot 0
\* contributes to neither.
C15_RecordSumsWhatWasRead ==
    [][pushed' # pushed =>
          /\ SlotsRead(ReadsOf(seen, "total")) = OtherSlots
          /\ SlotsRead(ReadsOf(seen, "count")) = OtherSlots
          /\ pushed'[Len(pushed')].points = ValuesRead(ReadsOf(seen, "total"))
          /\ ToSigned(count_in) = ValuesRead(ReadsOf(seen, "count"))
          /\ pushed'[Len(pushed')] =
                AnalysisRecord(count_in, count_total)]_vars

\* Thread n takes the step that leaves position p.
Leaves(n, p) == pc[n] = p /\ pc'[n] # p

\* C16: every iteration that passes the test of retire[n] increases total[n]
\* by exactly 1 and count[n] by exactly 1 if the point is inside and by 0
\* otherwise; an iteration that sees the flag set changes neither; hence
\* total[n] is the number of samples worker n has drawn (for worker 0 the
\* number of iterations it has completed).
C16_IterationAccounting ==
    [][/\ \A n \in Threads :
             /\ Leaves(n, "draw_y") => pc'[n] \in {"inc_count", "inc_total"}
             /\ Leaves(n, "inc_count") =>
                    /\ count'[n] = count[n] + 1
                    /\ total'[n] = total[n]
                    /\ pc'[n] = "inc_total"
             /\ Leaves(n, "inc_total") =>
                    total'[n] = total[n] + 1 /\ count'[n] = count[n]
             /\ Leaves(n, "check") \/ Leaves(n, "draw_x") \/ Leaves(n, "draw_y") =>
                    count'[n] = count[n] /\ total'[n] = total[n]
       /\ 0 \in Threads /\ pc'[0] = "check" => total'[0] = iter'[0]]_vars

\* main() has executed retire[n] = true.
Signalled(n) == Joined(n) \/ (mpc = "join" /\ mi = n)

\* C17: a worker never leaves its loop on its own: if worker n has exited,
\* retire[n] is true; the flag of a slot is false from the launch of its worker
\* until main() sets it after getchar(), and is never set back to false.
C17_ExitOnlyWhenSignalled ==
    [][/\ \A n \in DOMAIN pc' :
             /\ pc'[n] = "done" => retire'[n] = 1
             /\ pc'[n] # "unborn" =>
                    retire'[n] = (IF Signalled(n)' THEN 1 ELSE 0)
       /\ \A n \in Threads : retire[n] = 1 => retire'[n] = 1]_vars

C17_Witness ==
    \E n \in Threads :
        /\ pc[n] = "done"
        /\ mpc = "join" /\ mi = n
        /\ retire[n] = 1
        /\ total[n] > 0

\* The sum, as a number, of the cells 0 .. k of an array.
RECURSIVE NSumTo(_, _)
NSumTo(arr, k) == IF k < 0 THEN 0 ELSE NSumTo(arr, k - 1) + arr[k]

\* The counters the joins left satisfy count[n] <= total[n] and their sums
\* fit an unsigned int.
FinalCountersInRange ==
    /\ \A n \in Threads : joined_count[n] <= joined_total[n]
    /\ NSumTo(joined_total, supported_threads - 1) < UIntModulus

\* The estimate printed on the final line.
FinalLines == SelectSeq(out, LAMBDA l : l.line = "final")

\* C18: whenever the final per-slot counters satisfy count[n] <= total[n] and
\* nothing overflows, the pair main() computes the final estimate from
\* satisfies count[0] <= total[0], and the estimate printed is at most 4.
C18_AggregateInCircleAtMostTotal ==
    Reported /\ FinalCountersInRange =>
        /\ count[0] <= total[0]
        /\ \A k \in 1 .. Len(FinalLines) :
              /\ FinalLines[k].val.kind \in {"num", "nan"}
              /\ FinalLines[k].val.micro <= 4000000

C18_Witness ==
    /\ Reported
    /\ FinalCountersInRange
    /\ supported_threads = 2
    /\ joined_count[1] > 0
    /\ joined_total[0] > joined_count[0]
    /\ Len(FinalLines) = 1

\* The cells of the slots other than 0 have all been written.
OthersWritten(arr) == \A n \in 1 .. supported_threads - 1 : arr[n] # Undef

\* The sum, as a number, of the cells of the slots other than 0.
OthersSum(arr) == NSumTo(arr, supported_threads - 1) - arr[0]

\* C19: the points of each record lie between the sum of total[i], i >= 1, when
\* the call of analysis() began and that sum when the call finished.
C19_SnapshotWithinWindow ==
    [][pushed' # pushed =>
          /\ OthersWritten(an_start) =>
                 OthersSum(an_start) <= pushed'[Len(pushed')].points
          /\ OthersWritten(total) =>
                 pushed'[Len(pushed')].points <= OthersSum(total)]_vars

====
